---- MODULE Spec2Model ----
(***************************************************************************)
(* Model of scr/Backend/Calidad_agua.py: the resumable harvesting pipeline *)
(* (load, plan, dispatch, collect, finalize), its worker units             *)
(* (obtener_y_procesar_datos) and the geocoder (geocode_with_retry).       *)
(*                                                                         *)
(* Durable documents are modelled by their content as json.load sees it:   *)
(* absent, not parseable as JSON (open(...,'w') truncates the file before  *)
(* json.dump writes it), or a JSON value.                                  *)
(***************************************************************************)
EXTENDS Integers, Sequences, FiniteSets, TLC

\* ---------------------------------------------------------------- bounds
ZipLo == 1
ZipHi == 3
MaxPlaces == 2
MaxFallos == 1

\* ------------------------------------------------------ program constants
retries == 3
\* backoff_factor=0.5 seconds, in tenths of a second.
backoff_factor == 5
max_workers == 12

\* ------------------------------------------------------------ data model
Nombres == {"a", "b"}

\* Coordinates are [lon, lat]; [0.0, 0.0] is the failure value.
Sentinel == <<0, 0>>

\* Coordinates the geocoding service may answer with (it may answer 0,0).
NetCoords == {<<0, 0>>, <<-3, 40>>}

lista_zip == [n \in 1..(ZipHi - ZipLo) |-> ZipLo + n - 1]

Rango == {lista_zip[n] : n \in DOMAIN lista_zip}

\* The place lists a document may hold.  Place names are interchangeable,
\* so the first one is always "a"; a name may occur twice in a list.
ListasDeLocalidades ==
  {l \in UNION {[1..n -> Nombres] : n \in 0..MaxPlaces} :
     Len(l) > 0 => l[1] = "a"}

\* Variant: the key is the place name alone.
cache_key_sin_idred(localidad, idred) == <<0, localidad>>

\* f"{idred}::{localidad}": idred is an integer, so the text before the
\* first "::" determines idred and the rest determines localidad; the key
\* is the pair.
cache_key(localidad, idred) == <<idred, localidad>>

Claves == Rango \X Nombres

CacheVacio == [c \in {} |-> Sentinel]

CachePut(cache, clave, coords) ==
  [c \in DOMAIN cache \cup {clave} |-> IF c = clave THEN coords ELSE cache[c]]

\* ------------------------------------------------------ durable documents
Ausente(vacio) == [st |-> "absent", doc |-> vacio]

Truncado(vacio) == [st |-> "invalid", doc |-> vacio]

Json(contenido) == [st |-> "json", doc |-> contenido]

RECURSIVE SetToList(_)
SetToList(S) ==
  IF S = {} THEN <<>>
  ELSE LET m == CHOOSE x \in S : \A y \in S : x <= y
       IN <<m>> \o SetToList(S \ {m})

ListToSet(l) == {l[n] : n \in DOMAIN l}

FeatureCollection(features) == [type |-> "FeatureCollection", features |-> features]

NoFC == FeatureCollection(<<>>)

\* ------------------------------------------------- remote document source
SinDocumento ==
  [denominacion |-> <<"-", 0>>, gestor |-> <<"-", 0>>, calidad |-> "-",
   comentario |-> "-", localidades |-> <<>>]

\* The fields lines 135-145 extract.  The documents of this model carry the
\* comment header, whose own text line 142 takes as the comment.
Documento(idred, localidades) ==
  [denominacion |-> <<"Red", idred>>, gestor |-> <<"Gestor", idred>>,
   calidad |-> "Apta para el consumo",
   comentario |-> "Comentario Aut. Sanitaria",
   localidades |-> localidades]

\* Outcomes of session.get + parsing, lines 127-145.
RespuestasFetch ==
  {[t |-> "transporte", doc |-> SinDocumento],
   [t |-> "sin_marca", doc |-> SinDocumento],
   [t |-> "sin_campo", doc |-> SinDocumento]}
  \cup {[t |-> "datos", doc |-> d] :
          d \in {Documento(0, l) : l \in ListasDeLocalidades}}

\* --------------------------------------------- remote geocoding service
\* What requests.get / raise_for_status / r.json() / data[0]["lat"] meet.
RespuestasGeo ==
  {[t |-> x, coords |-> Sentinel] :
     x \in {"transporte", "no_json", "vacia", "no_lista", "sin_lat_lon",
            "no_numerico", "lat_nulo"}}
  \cup {[t |-> "candidato", coords |-> c] : c \in NetCoords}

\* The exception lines 90-95 raise for a response ("none": no exception).
Excepcion(resp) ==
  CASE resp.t = "transporte"  -> "RequestException"
    [] resp.t = "no_json"     -> "ValueError"
    [] resp.t = "no_numerico" -> "ValueError"
    [] resp.t = "no_lista"    -> "KeyError"
    [] resp.t = "sin_lat_lon" -> "KeyError"
    [] resp.t = "lat_nulo"    -> "TypeError"
    [] OTHER                  -> "none"

\* except (requests.exceptions.RequestException, IndexError, ValueError)
Capturada(exc) == exc \in {"RequestException", "IndexError", "ValueError"}

\* ------------------------------------------------------------- features
Feature(doc, loc, coords) ==
  [type |-> "Feature",
   properties |-> [Gestor |-> doc.gestor, Localidad |-> loc,
                   Calidad |-> doc.calidad, Comentario |-> doc.comentario],
   geometry |-> [type |-> "Point", coordinates |-> coords]]

FeatureError(doc, loc, coords, idred) ==
  [Feature(doc, loc, coords) EXCEPT
     !.properties = [idRed |-> idred, denominacion |-> doc.denominacion] @@ @]

\* ------------------------------------------------------------- variables
VARIABLES
  cache_file, progress_file, output_file, error_file,   \* durable documents
  mainpc,            \* position of the main thread
  geocode_cache,     \* module-level dict, line 68/72/74
  procesados,        \* set of completed ids, line 175/178
  features_ok, features_error,                          \* lines 181-200
  futuros,           \* one entry per submitted unit, line 210
  recogidos,         \* futures already yielded by as_completed
  cargados,          \* history: procesados as loaded at line 175
  resueltos,         \* history: <<key, coords>> obtained from the network
  previo,            \* history: durable documents a complete run left
  directorios,       \* output_dir and state_dir exist, lines 42-43
  fallos,            \* history: writes of the progress document that failed
  fallados           \* history: ids whose Collect raised in this run

durable == <<cache_file, progress_file, output_file, error_file>>
memoria == <<geocode_cache, procesados, features_ok, features_error,
             futuros, recogidos>>
historia == <<cargados, resueltos, previo>>
entorno == <<directorios, fallos, fallados>>
vars == <<durable, mainpc, memoria, historia, entorno>>

SinPrevio ==
  [completo |-> FALSE, progress |-> Ausente({}),
   output |-> Ausente(NoFC), error |-> Ausente(NoFC)]

SinUltimo == [loc |-> "", how |-> "none", coords |-> Sentinel]

Unidad(idred) ==
  [idred |-> idred, pc |-> "pendiente", doc |-> SinDocumento, k |-> 0, i |-> 0,
   features_ok |-> <<>>, features_error |-> <<>>,
   tipo |-> "none", last |-> SinUltimo,
   llamadas |-> 0, esperas |-> <<>>]

Corriendo == {"L212", "L223", "L232", "L233", "L235", "L238", "L241", "L242"}

Init ==
  /\ cache_file = Ausente(CacheVacio)
  /\ progress_file = Ausente({})
  /\ output_file = Ausente(NoFC)
  /\ error_file = Ausente(NoFC)
  /\ mainpc = "off"
  /\ geocode_cache = CacheVacio
  /\ procesados = {}
  /\ features_ok = <<>>
  /\ features_error = <<>>
  /\ futuros = <<>>
  /\ recogidos = {}
  /\ cargados = {}
  /\ resueltos = {}
  /\ previo = SinPrevio
  /\ directorios = FALSE
  /\ fallos = 0
  /\ fallados = {}

\* ------------------------------------------------------------------ load
\* Lines 65-75: the cache document; JSONDecodeError gives an empty cache.
CargarCache(doc) == IF doc.st = "json" THEN doc.doc ELSE CacheVacio

\* Variant: the prior output documents are not read back.
CargarFeatures_sin_leer(doc) == <<>>

\* Lines 184-200: an output document; JSONDecodeError gives an empty list.
CargarFeatures(doc) == IF doc.st = "json" THEN doc.doc.features ELSE <<>>

\* Lines 173-178: json.load of the progress document sits in no try block.
ProgresoLegible(doc) == doc.st # "invalid"

CargarProgreso(doc) == IF doc.st = "json" THEN ListToSet(doc.doc) ELSE {}

\* Variant: the filter of line 203 is left out.
ids_a_procesar_sin_filtro(hechos) == lista_zip

\* Line 203.
ids_a_procesar(hechos) == SelectSeq(lista_zip, LAMBDA idred : idred \notin hechos)

\* Line 210: one future per element of ids_a_procesar.
Enviar(ids) == [n \in DOMAIN ids |-> Unidad(ids[n])]

\* What os.environ.get gives for OUTPUT_DIR and STATE_DIR: None, "" or a path.
Entornos == [OUTPUT_DIR : {"None", "", "out"}, STATE_DIR : {"None", "", "state"}]

\* Variant: the directories are made before the values are validated.
setup_environment_tarde(env, dirs) ==
  [error |-> env.OUTPUT_DIR \in {"None", ""} \/ env.STATE_DIR \in {"None", ""},
   directorios |-> TRUE]

\* Lines 22-43: ValueError when a value is None or empty, else both
\* directories exist afterwards.
setup_environment(env, dirs) ==
  IF env.OUTPUT_DIR \in {"None", ""} \/ env.STATE_DIR \in {"None", ""}
  THEN [error |-> TRUE, directorios |-> dirs]
  ELSE [error |-> FALSE, directorios |-> TRUE]

\* A process starts without its configuration: line 57 raises and the
\* module is never executed further.
SinConfiguracion ==
  /\ mainpc \notin Corriendo
  /\ \E env \in Entornos :
       LET s == setup_environment(env, directorios)
       IN /\ s.error
          /\ directorios' = s.directorios
  /\ mainpc' = "sin_config"
  /\ geocode_cache' = CacheVacio
  /\ procesados' = {}
  /\ features_ok' = <<>>
  /\ features_error' = <<>>
  /\ futuros' = <<>>
  /\ recogidos' = {}
  /\ cargados' = {}
  /\ resueltos' = {}
  /\ previo' = SinPrevio
  /\ fallados' = {}
  /\ UNCHANGED <<durable, fallos>>

\* A process starts: module level (lines 57-75), main's Load, Plan and
\* Dispatch (lines 173-210).  Nothing durable is written here.
StartRun ==
  /\ mainpc \notin Corriendo
  /\ \E env \in Entornos :
       LET s == setup_environment(env, directorios)
       IN /\ ~s.error
          /\ directorios' = s.directorios
  /\ fallados' = {}
  /\ UNCHANGED fallos
  /\ previo' = IF mainpc = "exited" /\ progress_file.st = "json"
                  /\ Rango \subseteq ListToSet(progress_file.doc)
               THEN [completo |-> TRUE, progress |-> progress_file,
                     output |-> output_file, error |-> error_file]
               ELSE SinPrevio
  /\ resueltos' = {}
  /\ recogidos' = {}
  /\ IF ProgresoLegible(progress_file)
     THEN LET hechos == CargarProgreso(progress_file)
              ids == ids_a_procesar(hechos)
          IN /\ geocode_cache' = CargarCache(cache_file)
             /\ procesados' = hechos
             /\ cargados' = hechos
             /\ features_ok' = CargarFeatures(output_file)
             /\ features_error' = CargarFeatures(error_file)
             /\ futuros' = Enviar(ids)
             /\ mainpc' = IF Len(ids) > 0 THEN "L212" ELSE "L232"
     ELSE /\ geocode_cache' = CargarCache(cache_file)
          /\ procesados' = {}
          /\ cargados' = {}
          /\ features_ok' = <<>>
          /\ features_error' = <<>>
          /\ futuros' = <<>>
          /\ mainpc' = "aborted"
  /\ UNCHANGED durable

\* ----------------------------------------------------------- worker units
EnCurso == {f \in DOMAIN futuros : futuros[f].pc \in {"bucle", "leer", "red"}}

\* Line 167-169: any exception inside the unit gives ([], []).
Descartar(u, tipo) ==
  [u EXCEPT !.pc = "hecho", !.features_ok = <<>>, !.features_error = <<>>,
            !.tipo = tipo]

\* Variant: the test of line 158 is inverted.
Clasificar_invertido(u, loc, coords) ==
  IF coords # Sentinel
  THEN [u EXCEPT !.features_error =
                   Append(@, FeatureError(u.doc, loc, coords, u.idred))]
  ELSE [u EXCEPT !.features_ok = Append(@, Feature(u.doc, loc, coords))]

\* Lines 158-163: a feature goes to the error list iff its coordinates
\* equal [0.0, 0.0].
Clasificar(u, loc, coords) ==
  IF coords = Sentinel
  THEN [u EXCEPT !.features_error =
                   Append(@, FeatureError(u.doc, loc, coords, u.idred))]
  ELSE [u EXCEPT !.features_ok = Append(@, Feature(u.doc, loc, coords))]

\* Lines 146-165 after geocode_with_retry has returned coords for the
\* k-th place: build and classify the feature, go on with the loop, and
\* return both lists after the last place.
Devolver(u, coords, how) ==
  LET loc == u.doc.localidades[u.k]
      v == Clasificar(u, loc, coords)
      fin == u.k + 1 > Len(u.doc.localidades)
  IN [v EXCEPT !.k = u.k + 1, !.i = 0,
               !.pc = IF fin THEN "hecho" ELSE "bucle",
               !.last = [loc |-> loc, how |-> how, coords |-> coords]]

\* Lines 124-145: fetch and parse the document of the unit.
Fetch(f) ==
  /\ mainpc \in {"L212", "L223"}
  /\ f \in DOMAIN futuros
  /\ futuros[f].pc = "pendiente"
  /\ Cardinality(EnCurso) < max_workers
  /\ \E r \in RespuestasFetch :
       LET u == futuros[f]
           doc == Documento(u.idred, r.doc.localidades)
       IN futuros' = [futuros EXCEPT ![f] =
            CASE r.t = "transporte" -> Descartar(u, "fetch_fallido")
              [] r.t = "sin_marca"  -> [u EXCEPT !.pc = "hecho", !.tipo = "sin_datos"]
              [] r.t = "sin_campo"  -> Descartar(u, "parse_fallido")
              [] OTHER ->
                   [u EXCEPT !.doc = doc, !.k = 1, !.tipo = "datos",
                             !.pc = IF Len(doc.localidades) = 0
                                    THEN "hecho" ELSE "bucle"]]
  /\ UNCHANGED <<durable, mainpc, geocode_cache, procesados, features_ok,
                 features_error, recogidos, historia>>
  /\ UNCHANGED entorno

\* Variant: the lookup never finds the key.
EnCache_nunca(cache, clave) == FALSE

\* Lines 79-82: the cache lookup of geocode_with_retry.
EnCache(cache, clave) == clave \in DOMAIN cache

\* Line 80: the membership test.  No lock is taken anywhere in the module:
\* a unit that found its key is at line 82 ("leer") until it has read it.
GeocodeLookup(f) ==
  /\ mainpc \in {"L212", "L223"}
  /\ f \in DOMAIN futuros
  /\ futuros[f].pc = "bucle"
  /\ LET u == futuros[f]
         clave == cache_key(u.doc.localidades[u.k], u.idred)
     IN futuros' = [futuros EXCEPT ![f] =
          IF EnCache(geocode_cache, clave)
          THEN [u EXCEPT !.pc = "leer", !.llamadas = 0, !.esperas = <<>>]
          ELSE [u EXCEPT !.pc = "red", !.i = 0, !.llamadas = 0, !.esperas = <<>>]]
  /\ UNCHANGED <<durable, mainpc, geocode_cache, procesados, features_ok,
                 features_error, recogidos, historia>>
  /\ UNCHANGED entorno

\* Line 82: the stored coordinates are read and returned.
GeocodeRead(f) ==
  /\ mainpc \in {"L212", "L223"}
  /\ f \in DOMAIN futuros
  /\ futuros[f].pc = "leer"
  /\ LET u == futuros[f]
         clave == cache_key(u.doc.localidades[u.k], u.idred)
     IN futuros' = [futuros EXCEPT ![f] = Devolver(u, geocode_cache[clave], "hit")]
  /\ UNCHANGED <<durable, mainpc, geocode_cache, procesados, features_ok,
                 features_error, recogidos, historia>>
  /\ UNCHANGED entorno

\* Variant: the empty answer is stored as well.
CacheTras_siempre(cache, clave, resp) == CachePut(cache, clave, resp.coords)

\* Lines 93-104: what a response without exception does to the cache.
CacheTras(cache, clave, resp) ==
  IF resp.t = "candidato" THEN CachePut(cache, clave, resp.coords) ELSE cache

\* Line 107: time.sleep(backoff_factor * (2 ** i)), in tenths of a second.
Espera(i) == backoff_factor * (2 ^ i)

\* History of one call: the request of line 90 is counted, and the sleep
\* of the except clause (lines 105-107) is recorded for a caught exception.
Anotar(u, exc) ==
  [u EXCEPT !.llamadas = @ + 1,
            !.esperas = IF Capturada(exc) THEN Append(@, Espera(u.i)) ELSE @]

\* Lines 88-111: one pass of the retry loop, attempt number u.i.
GeocodeAttempt(f) ==
  /\ mainpc \in {"L212", "L223"}
  /\ f \in DOMAIN futuros
  /\ futuros[f].pc = "red"
  /\ \E resp \in RespuestasGeo :
       LET exc == Excepcion(resp)
           u == Anotar(futuros[f], exc)
           clave == cache_key(u.doc.localidades[u.k], u.idred)
       IN IF exc = "none"
          THEN /\ geocode_cache' = CacheTras(geocode_cache, clave, resp)
               /\ resueltos' = IF resp.t = "candidato"
                               THEN resueltos \cup {<<clave, resp.coords>>}
                               ELSE resueltos
               /\ futuros' = [futuros EXCEPT ![f] =
                    IF resp.t = "candidato"
                    THEN Devolver(u, resp.coords, "red")
                    ELSE Devolver(u, Sentinel, "vacia")]
          ELSE /\ UNCHANGED <<geocode_cache, resueltos>>
               /\ futuros' = [futuros EXCEPT ![f] =
                    IF Capturada(exc)
                    THEN IF u.i + 1 < retries
                         THEN [u EXCEPT !.i = u.i + 1]
                         ELSE Devolver(u, Sentinel, "agotado")
                    ELSE Descartar(u, "geocode_excepcion")]
  /\ UNCHANGED <<durable, mainpc, procesados, features_ok, features_error,
                 recogidos, cargados, previo>>
  /\ UNCHANGED entorno

\* ---------------------------------------------------------------- collect
\* Variant: an id is marked only when its unit returned records.
Marcar_con_datos(hechos, u) ==
  IF Len(u.features_ok) + Len(u.features_error) > 0
  THEN hechos \cup {u.idred} ELSE hechos

\* Line 221 (and what decides it): the completed set after a future's
\* result has been read.
Marcar(hechos, u) == hechos \cup {u.idred}

\* Variant: the ok document is rewritten with every collected unit.
Collect_con_volcado(f) ==
  /\ mainpc = "L212"
  /\ f \in DOMAIN futuros
  /\ f \notin recogidos
  /\ futuros[f].pc = "hecho"
  /\ features_ok' = features_ok \o futuros[f].features_ok
  /\ features_error' = features_error \o futuros[f].features_error
  /\ procesados' = Marcar(procesados, futuros[f])
  /\ recogidos' = recogidos \cup {f}
  /\ progress_file' = Truncado({})
  /\ output_file' = Json(FeatureCollection(features_ok'))
  /\ mainpc' = "L223"
  /\ UNCHANGED <<cache_file, error_file, geocode_cache, futuros, historia>>
  /\ UNCHANGED entorno

\* Lines 213-222: a finished future is yielded; its lists are appended, its
\* id is added, and open(progress_file, 'w') truncates the document.
Collect(f) ==
  /\ mainpc = "L212"
  /\ f \in DOMAIN futuros
  /\ f \notin recogidos
  /\ futuros[f].pc = "hecho"
  /\ features_ok' = features_ok \o futuros[f].features_ok
  /\ features_error' = features_error \o futuros[f].features_error
  /\ procesados' = Marcar(procesados, futuros[f])
  /\ recogidos' = recogidos \cup {f}
  /\ progress_file' = Truncado({})
  /\ mainpc' = "L223"
  /\ UNCHANGED <<cache_file, output_file, error_file, geocode_cache, futuros,
                 historia>>
  /\ UNCHANGED entorno

\* Line 223 and the end of the with block: the list is written and closed.
DumpProgress ==
  /\ mainpc = "L223"
  /\ progress_file' = Json(SetToList(procesados))
  /\ mainpc' = IF recogidos = DOMAIN futuros THEN "L232" ELSE "L212"
  /\ UNCHANGED <<cache_file, output_file, error_file, memoria, historia>>
  /\ UNCHANGED entorno

\* --------------------------------------------------------------- finalize
OpenOutput ==
  /\ mainpc = "L232"
  /\ output_file' = Truncado(NoFC)
  /\ mainpc' = "L233"
  /\ UNCHANGED <<cache_file, progress_file, error_file, memoria, historia>>
  /\ UNCHANGED entorno

DumpOutput ==
  /\ mainpc = "L233"
  /\ output_file' = Json(FeatureCollection(features_ok))
  /\ mainpc' = "L235"
  /\ UNCHANGED <<cache_file, progress_file, error_file, memoria, historia>>
  /\ UNCHANGED entorno

\* Lines 235-237: the error document is opened only for a non-empty list.
OpenError ==
  /\ mainpc = "L235"
  /\ IF Len(features_error) > 0
     THEN /\ error_file' = Truncado(NoFC)
          /\ mainpc' = "L238"
     ELSE /\ UNCHANGED error_file
          /\ mainpc' = "L241"
  /\ UNCHANGED <<cache_file, progress_file, output_file, memoria, historia>>
  /\ UNCHANGED entorno

DumpError ==
  /\ mainpc = "L238"
  /\ error_file' = Json(FeatureCollection(features_error))
  /\ mainpc' = "L241"
  /\ UNCHANGED <<cache_file, progress_file, output_file, memoria, historia>>
  /\ UNCHANGED entorno

OpenCache ==
  /\ mainpc = "L241"
  /\ cache_file' = Truncado(CacheVacio)
  /\ mainpc' = "L242"
  /\ UNCHANGED <<progress_file, output_file, error_file, memoria, historia>>
  /\ UNCHANGED entorno

DumpCache ==
  /\ mainpc = "L242"
  /\ cache_file' = Json(geocode_cache)
  /\ mainpc' = "exited"
  /\ UNCHANGED <<progress_file, output_file, error_file, memoria, historia>>
  /\ UNCHANGED entorno

\* The process is killed from outside (section 5 of the specification):
\* its memory is gone, the durable documents stay as they are.
Kill ==
  /\ mainpc \in Corriendo
  /\ mainpc' = "killed"
  /\ geocode_cache' = CacheVacio
  /\ procesados' = {}
  /\ features_ok' = <<>>
  /\ features_error' = <<>>
  /\ futuros' = <<>>
  /\ recogidos' = {}
  /\ cargados' = {}
  /\ resueltos' = {}
  /\ previo' = SinPrevio
  /\ fallados' = {}
  /\ UNCHANGED <<durable, directorios, fallos>>

Next ==
  \/ StartRun
  \/ SinConfiguracion
  \/ \E f \in 1..(ZipHi - ZipLo) : Fetch(f)
  \/ \E f \in 1..(ZipHi - ZipLo) : GeocodeLookup(f)
  \/ \E f \in 1..(ZipHi - ZipLo) : GeocodeRead(f)
  \/ \E f \in 1..(ZipHi - ZipLo) : GeocodeAttempt(f)
  \/ \E f \in 1..(ZipHi - ZipLo) : Collect(f)
  \/ DumpProgress
  \/ OpenOutput
  \/ DumpOutput
  \/ OpenError
  \/ DumpError
  \/ OpenCache
  \/ DumpCache
  \/ Kill

Spec == Init /\ [][Next]_vars

\* ------------------------------------------- faults of the ledger write
\* Lines 213-229 when open(progress_file, 'w') raises OSError: the lists
\* were appended and the id added at lines 216-221, the document is not
\* touched, line 229 logs and the loop goes on with the next future.
CollectFault(f) ==
  /\ mainpc = "L212"
  /\ fallos < MaxFallos
  /\ f \in DOMAIN futuros
  /\ f \notin recogidos
  /\ futuros[f].pc = "hecho"
  /\ features_ok' = features_ok \o futuros[f].features_ok
  /\ features_error' = features_error \o futuros[f].features_error
  /\ procesados' = Marcar(procesados, futuros[f])
  /\ recogidos' = recogidos \cup {f}
  /\ mainpc' = IF recogidos' = DOMAIN futuros THEN "L232" ELSE "L212"
  /\ fallos' = fallos + 1
  /\ fallados' = fallados \cup {futuros[f].idred}
  /\ UNCHANGED <<durable, geocode_cache, futuros, historia, directorios>>

NextFault ==
  \/ Next
  \/ \E f \in 1..(ZipHi - ZipLo) : CollectFault(f)

SpecFault == Init /\ [][NextFault]_vars

\* ================================================================ claims
\* The completed set a process starting now would load (line 175).
Persistidos == CargarProgreso(progress_file)

ClaveActual(u) == cache_key(u.doc.localidades[u.k], u.idred)

UltimaClave(u) == cache_key(u.last.loc, u.idred)

ClavesResueltas == {p[1] : p \in resueltos}

Finalizando == {"L232", "L233", "L235", "L238", "L241", "L242", "exited"}

\* C1: an id whose document fetch failed at transport level is not added
\* to the completed set in that run and is absent from the persisted
\* progress document (so the next run's work set holds it).
C1_FetchFallidoNoCompletado ==
  \A f \in DOMAIN futuros :
    futuros[f].tipo = "fetch_fallido" =>
      /\ futuros[f].idred \notin procesados
      /\ futuros[f].idred \notin Persistidos

\* C2: no exception escapes geocode_with_retry, whatever the remote call
\* gives: it always returns a coordinate pair to the unit that called it.
C2_GeocoderNuncaFalla ==
  \A f \in DOMAIN futuros : futuros[f].tipo # "geocode_excepcion"

\* C3: a corrupt durable document never makes Load abort: the run goes on
\* to Plan and Dispatch with that piece of state empty.
C3_CargaNuncaFatal == mainpc # "aborted"

\* C4: after geocode_with_retry has returned the failure value for an
\* empty answer or for exhausted retries, the cache holds no entry for that
\* key, and the next call for the same key goes to the network again.
C4_SentinelNoCacheado ==
  /\ [](\A f \in DOMAIN futuros :
          futuros[f].last.how \in {"vacia", "agotado"} =>
            UltimaClave(futuros[f]) \notin DOMAIN geocode_cache)
  /\ [][\A f \in DOMAIN futuros :
          (/\ futuros[f].pc = "bucle"
           /\ futuros[f].last.how \in {"vacia", "agotado"}
           /\ ClaveActual(futuros[f]) = UltimaClave(futuros[f])
           /\ f \in DOMAIN futuros'
           /\ futuros'[f] # futuros[f])
          => futuros'[f].pc = "red"]_vars

C4_Witness ==
  \E f \in DOMAIN futuros :
    /\ futuros[f].pc = "red"
    /\ futuros[f].last.how \in {"vacia", "agotado"}
    /\ ClaveActual(futuros[f]) = UltimaClave(futuros[f])

\* C5: within a process, a key is resolved from the network at most once;
\* while a key is resolved no call for it is in the retry loop, every later
\* call answers the same coordinates from the cache, and the stored entry
\* keeps the value first obtained.
C5_CacheCorrecto ==
  /\ \A p \in resueltos, q \in resueltos : p[1] = q[1] => p[2] = q[2]
  /\ \A p \in resueltos :
       p[1] \in DOMAIN geocode_cache /\ geocode_cache[p[1]] = p[2]
  /\ \A f \in DOMAIN futuros :
       /\ futuros[f].pc = "red" => ClaveActual(futuros[f]) \notin ClavesResueltas
       /\ futuros[f].last.how = "hit" =>
            \A p \in resueltos :
              p[1] = UltimaClave(futuros[f]) => futuros[f].last.coords = p[2]

C5_Witness ==
  \E f \in DOMAIN futuros :
    /\ futuros[f].last.how = "hit"
    /\ UltimaClave(futuros[f]) \in ClavesResueltas

\* C6: the units of a run are exactly one per id of the configured range
\* that is not in the completed set loaded from the progress document; an
\* id of the loaded set has no unit, whatever the loaded output holds.
C6_PlanExacto ==
  mainpc \in Corriendo \cup {"exited"} =>
    /\ {futuros[f].idred : f \in DOMAIN futuros} = Rango \ cargados
    /\ \A f \in DOMAIN futuros, g \in DOMAIN futuros :
         futuros[f].idred = futuros[g].idred => f = g

C6_Witness ==
  /\ mainpc = "L212"
  /\ cargados # {}
  /\ features_ok = <<>>
  /\ features_error = <<>>
  /\ \E f \in DOMAIN futuros : futuros[f].pc = "hecho"

\* C7: a run that follows a run which completed Finalize with the whole
\* range persisted as complete dispatches no unit and resolves nothing,
\* leaves the progress document as it was, and ends with the ok and error
\* documents equal to those the first run left.
C7_Idempotente ==
  (previo.completo /\ mainpc \in Corriendo \cup {"exited"}) =>
    /\ futuros = <<>>
    /\ resueltos = {}
    /\ progress_file = previo.progress
    /\ mainpc = "exited" =>
         /\ output_file = previo.output
         /\ error_file = previo.error

C7_Witness ==
  /\ previo.completo
  /\ mainpc = "exited"
  /\ Len(features_ok) > 0
  /\ Len(features_error) > 0

\* C8: once every dispatched unit has been collected, the persisted
\* progress document holds the id of every unit that found no data marker
\* and of every unit that returned records, error records only included.
C8_CompletoSeaCualSea ==
  mainpc \in Finalizando =>
    \A f \in DOMAIN futuros :
      futuros[f].tipo \in {"sin_datos", "datos"} =>
        futuros[f].idred \in Persistidos

C8_Witness ==
  /\ mainpc = "exited"
  /\ Persistidos = Rango
  /\ \E f \in DOMAIN futuros : futuros[f].tipo = "sin_datos"
  /\ \E f \in DOMAIN futuros :
       /\ futuros[f].tipo = "datos"
       /\ futuros[f].features_ok = <<>>
       /\ Len(futuros[f].features_error) > 0

\* C9: every error record has the coordinates [0.0, 0.0] and carries idRed
\* and denominacion, every ok record has other coordinates, and no record
\* is in both collections: in the units' lists, in the lists of the main
\* thread and in the two output documents.
ErroresBien(l) ==
  \A n \in DOMAIN l :
    /\ l[n].geometry.coordinates = Sentinel
    /\ {"idRed", "denominacion"} \subseteq DOMAIN l[n].properties

CorrectosBien(l) == \A n \in DOMAIN l : l[n].geometry.coordinates # Sentinel

Separados(ok, err) == \A n \in DOMAIN ok, m \in DOMAIN err : ok[n] # err[m]

C9_Clasificacion ==
  /\ \A f \in DOMAIN futuros :
       /\ CorrectosBien(futuros[f].features_ok)
       /\ ErroresBien(futuros[f].features_error)
  /\ CorrectosBien(features_ok)
  /\ ErroresBien(features_error)
  /\ Separados(features_ok, features_error)
  /\ CorrectosBien(output_file.doc.features)
  /\ ErroresBien(error_file.doc.features)
  /\ Separados(output_file.doc.features, error_file.doc.features)

C9_Witness ==
  /\ output_file.st = "json"
  /\ error_file.st = "json"
  /\ Len(output_file.doc.features) > 0
  /\ \E n \in DOMAIN error_file.doc.features :
       error_file.doc.features[n].properties.idRed \in Rango

\* C10: while a run goes on, a progress document that holds a set of ids
\* keeps holding every one of them (so that a kill at any point leaves a
\* document the next run loads them from).
C10_LedgerDurable ==
  [][(progress_file.st = "json" /\ mainpc \in Corriendo /\ mainpc' \in Corriendo)
       => /\ progress_file'.st = "json"
          /\ Persistidos \subseteq ListToSet(progress_file'.doc)]_vars

\* C11: a unit whose Collect raised is not marked complete: at the end of
\* the run its id is absent from the persisted progress document, so the
\* next run dispatches it again.
C11_FalloNoCompletado ==
  mainpc \in Finalizando => fallados \cap Persistidos = {}

\* C12: the accesses to the cache mapping and to the completed set are
\* serialized: never are two threads inside an access at the same time.
\* (The completed set is touched by the main thread alone; a worker is
\* inside a cache access between the test of line 80 and the read of
\* line 82.)
C12_AccesosSerializados ==
  \A f \in DOMAIN futuros, g \in DOMAIN futuros :
    (futuros[f].pc = "leer" /\ futuros[g].pc = "leer") => f = g

\* C13: the ok and error documents are written atomically: at every point
\* of Finalize (so after a kill at any point) each of them holds either a
\* complete earlier content or its complete new content, never a cut-off
\* document that the next Load replaces by an empty collection.
C13_SalidaAtomica ==
  /\ output_file.st # "invalid"
  /\ error_file.st # "invalid"

\* C14: the ok, error and cache documents change only in Finalize, after
\* every dispatched unit has settled and been collected, each at its own
\* place of Finalize, and Finalize passes each place once in a run (the
\* error document only for a non-empty error list); until then only the
\* progress document is written.  A run that ends has written the ok and
\* the cache document.
OrdenFinal(pc) ==
  CASE pc = "L232" -> 1 [] pc = "L233" -> 2 [] pc = "L235" -> 3
    [] pc = "L238" -> 4 [] pc = "L241" -> 5 [] pc = "L242" -> 6
    [] OTHER -> 0

C14_FinalizeAlFinal ==
  /\ [][/\ (output_file' # output_file \/ error_file' # error_file
              \/ cache_file' # cache_file)
             => /\ OrdenFinal(mainpc) > 0
                /\ recogidos = DOMAIN futuros
                /\ \A f \in DOMAIN futuros : futuros[f].pc = "hecho"
        /\ output_file' # output_file => mainpc \in {"L232", "L233"}
        /\ error_file' # error_file => mainpc \in {"L235", "L238"}
        /\ cache_file' # cache_file => mainpc \in {"L241", "L242"}
        /\ (OrdenFinal(mainpc) > 0 /\ mainpc' \in Corriendo)
             => OrdenFinal(mainpc') > OrdenFinal(mainpc)]_vars
  /\ [](mainpc = "exited" => (output_file.st = "json" /\ cache_file.st = "json"))

C14_Witness ==
  /\ mainpc = "exited"
  /\ Len(futuros) >= 2
  /\ output_file.st = "json"
  /\ error_file.st = "json"
  /\ cache_file.st = "json"
  /\ DOMAIN cache_file.doc # {}

\* C15: a unit whose document holds the data marker and n place names
\* returns n records over its two lists, one per place name, whatever the
\* geocoding of the other places gave.
Lugares(l) == {l[n].properties.Localidad : n \in DOMAIN l}

C15_ResultadosParciales ==
  \A f \in DOMAIN futuros :
    (futuros[f].pc = "hecho" /\ futuros[f].tipo \in {"datos", "geocode_excepcion"})
      => /\ Len(futuros[f].features_ok) + Len(futuros[f].features_error)
              = Len(futuros[f].doc.localidades)
         /\ Lugares(futuros[f].features_ok) \cup Lugares(futuros[f].features_error)
              = ListToSet(futuros[f].doc.localidades)

\* C16: a process that starts with OUTPUT_DIR or STATE_DIR missing stops
\* before any work: no durable document changes, no directory is made,
\* nothing is loaded, no unit exists and nothing is resolved.
C16_SinConfiguracionNada ==
  /\ [][mainpc' = "sin_config" => UNCHANGED <<durable, directorios>>]_vars
  /\ [](mainpc = "sin_config" =>
          /\ futuros = <<>>
          /\ resueltos = {}
          /\ geocode_cache = CacheVacio
          /\ procesados = {}
          /\ features_ok = <<>>
          /\ features_error = <<>>)

C16_Witness ==
  /\ mainpc = "sin_config"
  /\ ~directorios

\* C17: a call that misses the cache makes at most `retries` requests; a
\* well-formed answer ends it at once, every failed attempt before it
\* having been followed by one wait; when every attempt fails it makes
\* exactly `retries` requests and waits backoff_factor * 2^i after failed
\* attempt i only between consecutive attempts, retries - 1 times in all.
EsperasEntreIntentos(n) == [j \in 1..n |-> Espera(j - 1)]

C17_ReintentosAcotados ==
  \A f \in DOMAIN futuros :
    LET u == futuros[f]
    IN /\ u.llamadas <= retries
       /\ (u.tipo = "datos" /\ u.pc \in {"bucle", "hecho"}
             /\ u.last.how \in {"red", "vacia"})
            => u.esperas = EsperasEntreIntentos(u.llamadas - 1)
       /\ (u.tipo = "datos" /\ u.pc \in {"bucle", "hecho"}
             /\ u.last.how = "agotado")
            => /\ u.llamadas = retries
               /\ u.esperas = EsperasEntreIntentos(retries - 1)

\* C18: the cache keys of two different units of a run are never the same:
\* whatever a unit tests, reads or stores in the cache is a key of its own
\* source id, so every entry resolved in a run has one unit that can have
\* written it.
ClavesDe(u) ==
  {cache_key(u.doc.localidades[n], u.idred) : n \in DOMAIN u.doc.localidades}

C18_ClavesPropias ==
  /\ \A f \in DOMAIN futuros, g \in DOMAIN futuros :
       f # g => ClavesDe(futuros[f]) \cap ClavesDe(futuros[g]) = {}
  /\ \A p \in resueltos :
       Cardinality({f \in DOMAIN futuros : p[1] \in ClavesDe(futuros[f])}) = 1

C18_Witness ==
  \E f \in DOMAIN futuros, g \in DOMAIN futuros :
    /\ f # g
    /\ futuros[f].pc = "red"
    /\ futuros[g].pc = "red"
    /\ futuros[f].doc.localidades[futuros[f].k]
         = futuros[g].doc.localidades[futuros[g].k]
    /\ resueltos # {}

\* C19: over any sequence of runs on one state directory, runs killed and
\* ledger writes failing included, no unit is dispatched for a source id
\* whose records are already in the durable ok or error document (so the
\* records of an id are appended to them at most once).
IdsEn(l) == {l[n].properties.Gestor[2] : n \in DOMAIN l}

C19_SinDuplicados ==
  mainpc \in {"L212", "L223"} =>
    \A f \in DOMAIN futuros :
      futuros[f].idred \notin
        IdsEn(output_file.doc.features) \cup IdsEn(error_file.doc.features)

====
